---------------------------- MODULE Spec2Model ----------------------------
(***************************************************************************)
(* State-machine model of server.js (crypto-price-api): the in-memory      *)
(* price cache with its 60 s TTL, the API-key middleware, the per-route    *)
(* express-rate-limit instances, the key store and the five routes.        *)
(*                                                                         *)
(* JavaScript strings that the code inspects (startsWith, toLowerCase,     *)
(* template concatenation) are sequences of one-character strings.  Every  *)
(* action is one run-to-completion callback of the Node event loop; a      *)
(* price request that misses the cache is split at its `await axios.get`.  *)
(***************************************************************************)
EXTENDS Integers, Sequences, FiniteSets, TLC

VARIABLES
    now,        \* Date.now(), in ms
    cache,      \* const cache = new Map(): cacheKey -> [data, timestamp]
    apiKeys,    \* const apiKeys = new Map(): key -> [tier, createdAt]
    hits,       \* the MemoryStore of each route's limiter: route -> ip -> client
    pending,    \* price requests suspended at `await axios.get(...)`
    last,       \* the response sent most recently (with the request it answers)
    fetches,    \* history: the successful upstream fetches, in completion order
    issued,     \* history: the keys returned by POST /generate-key, in order
    tierSeen,   \* history: per tier and client, the price requests of the current hour
    nreq,       \* history: number of requests received outside the burst
    ticks       \* history: number of clock steps taken

vars == <<now, cache, apiKeys, hits, pending, last, fetches, issued, tierSeen,
          nreq, ticks>>

---------------------------------------------------------------------------
(* Bounds of the model *)

MaxRequests == 3     \* requests received in a behaviour of Spec
MaxPending == 2      \* price requests suspended at the same time
MaxTicks == 1        \* clock steps in a behaviour
MaxKeys == 2         \* POST /generate-key calls in a behaviour
BurstOver == 2       \* requests past the limit that the burst may send (SpecRL)
BurstOther == 1      \* requests received outside the burst (SpecRL)

---------------------------------------------------------------------------
(* Program constants *)

CACHE_TTL == 60000
UPSTREAM_TIMEOUT == 10000
WINDOW_MS == 60 * 60 * 1000
FREE_MAX == 100
PRO_MAX == 10000
ENT_MAX == 100000

---------------------------------------------------------------------------
(* Strings *)

PRO_ == <<"p", "r", "o", "_">>
ENT_ == <<"e", "n", "t", "_">>
FREE_ == <<"f", "r", "e", "e", "_">>
PRICES_ == <<"p", "r", "i", "c", "e", "s", "_">>
BITCOIN == <<"b", "i", "t", "c", "o", "i", "n">>
ETHEREUM == <<"e", "t", "h", "e", "r", "e", "u", "m">>
COMMA == <<",">>
DEFAULT_IDS == BITCOIN \o COMMA \o ETHEREUM

UpperCase == <<"A", "B", "C", "D", "E", "F", "G", "H", "I", "J", "K", "L", "M",
               "N", "O", "P", "Q", "R", "S", "T", "U", "V", "W", "X", "Y", "Z">>
LowerCase == <<"a", "b", "c", "d", "e", "f", "g", "h", "i", "j", "k", "l", "m",
               "n", "o", "p", "q", "r", "s", "t", "u", "v", "w", "x", "y", "z">>

\* The lower-case letter of each upper-case letter.
LowerOf ==
    [c \in {UpperCase[i] : i \in 1..Len(UpperCase)} |->
        LowerCase[CHOOSE i \in 1..Len(UpperCase) : UpperCase[i] = c]]

LowerChar(c) == IF c \in DOMAIN LowerOf THEN LowerOf[c] ELSE c

\* String.prototype.toLowerCase
ToLowerCase(s) == [i \in 1..Len(s) |-> LowerChar(s[i])]

\* String.prototype.startsWith
StartsWith(s, p) == Len(s) >= Len(p) /\ SubSeq(s, 1, Len(p)) = p

\* ids.split(','), as the upstream reads the ids parameter
RECURSIVE SplitComma(_)
SplitComma(s) ==
    IF \A i \in 1..Len(s) : s[i] # ","
    THEN {s}
    ELSE LET i == CHOOSE j \in 1..Len(s) :
                      s[j] = "," /\ \A k \in 1..(j - 1) : s[k] # ","
         IN {SubSeq(s, 1, i - 1)} \cup SplitComma(SubSeq(s, i + 1, Len(s)))

---------------------------------------------------------------------------
(* Values *)

Routes == {"/prices", "/prices/:id"}
Tiers == {"free", "pro", "enterprise"}

\* An optional value: a header or a body field that may be missing.
Absent == [set |-> FALSE, val |-> <<>>]
Given(v) == [set |-> TRUE, val |-> v]
AbsentTier == [set |-> FALSE, val |-> ""]

\* The price snapshot `ver` of the coins in `coins`: response.data of the upstream.
NoData == [coins |-> {}, ver |-> 0]
KnownCoins == {BITCOIN, ETHEREUM}

\* What the provider answers for ?ids=<ids>: an object with one property per
\* known coin among the ids asked for.
UpstreamData(ids, ver) == [coins |-> KnownCoins \cap SplitComma(ids), ver |-> ver]

\* Lower-case property names every JavaScript object inherits from Object.prototype.
InheritedProps == {<<"c", "o", "n", "s", "t", "r", "u", "c", "t", "o", "r">>,
                   <<"_", "_", "p", "r", "o", "t", "o", "_", "_">>}

\* Truthiness of prices[name]: an own property of the payload (an object), or
\* one found on the prototype chain.
TruthyProp(prices, name) == name \in prices.coins \/ name \in InheritedProps

---------------------------------------------------------------------------
(* Rate limiting: createRateLimit and the limiter it returns *)

Limits(tier) ==
    CASE tier = "free" -> [windowMs |-> WINDOW_MS, max |-> FREE_MAX]
      [] tier = "pro" -> [windowMs |-> WINDOW_MS, max |-> PRO_MAX]
      [] tier = "enterprise" -> [windowMs |-> WINDOW_MS, max |-> ENT_MAX]

\* Price routes limited at the pro tier's count.
RouteLimitTier_Pro(route) == "pro"

\* The tier each price route passes to createRateLimit.
RouteLimitTier(route) == "free"

createRateLimit(tier) == [windowMs |-> Limits(tier).windowMs, max |-> Limits(tier).max]

NewClient == [totalHits |-> 0, resetTime |-> 0]

\* The store's increment for one client (keyed by req.ip): a window that has
\* run out is restarted, then the request is counted.
Increment(client, limiter, t) ==
    IF client.resetTime <= t
    THEN [totalHits |-> 1, resetTime |-> t + limiter.windowMs]
    ELSE [client EXCEPT !.totalHits = @ + 1]

\* The limiter's decision for the request just counted.
OverLimit(client, limiter) == client.totalHits > limiter.max

---------------------------------------------------------------------------
(* API-key middleware *)

\* if (!apiKey): the header is missing or is the empty string
KeyMissing(hdr) == ~hdr.set \/ hdr.val = <<>>

\* The resolver without its enterprise branch.
Classify_NoEnt(apiKey) == IF StartsWith(apiKey, PRO_) THEN "pro" ELSE "free"

Classify(apiKey) ==
    LET t0 == "free"
        t1 == IF StartsWith(apiKey, PRO_) THEN "pro" ELSE t0
        t2 == IF StartsWith(apiKey, ENT_) THEN "enterprise" ELSE t1
    IN t2

\* A key check that looks the key up in the key store.
validateApiKey_Registry(hdr) ==
    IF KeyMissing(hdr) \/ hdr.val \notin DOMAIN apiKeys
    THEN [status |-> 401, tier |-> ""]
    ELSE [status |-> 0, tier |-> apiKeys[hdr.val].tier]

\* A key check that lets every request through.
validateApiKey_Lenient(hdr) == [status |-> 0, tier |-> Classify(hdr.val)]

validateApiKey(hdr) ==
    IF KeyMissing(hdr)
    THEN [status |-> 401, tier |-> ""]
    ELSE [status |-> 0, tier |-> Classify(hdr.val)]

---------------------------------------------------------------------------
(* The price cache *)

\* A key that does not tell the queries apart.
CacheKey_Shared(ids) == PRICES_

CacheKey(ids) == PRICES_ \o ids

\* An entry of exactly the TTL's age still counts as fresh.
IsFresh_Inclusive(entry, t) == t - entry.timestamp <= CACHE_TTL

IsFresh(entry, t) == t - entry.timestamp < CACHE_TTL

\* A lookup that ignores entries whose payload lists no coin.
CacheHit_NonEmpty(c, ids, t) ==
    /\ CacheKey(ids) \in DOMAIN c
    /\ IsFresh(c[CacheKey(ids)], t)
    /\ c[CacheKey(ids)].data.coins # {}

\* cached && Date.now() - cached.timestamp < CACHE_TTL
CacheHit(c, ids, t) ==
    CacheKey(ids) \in DOMAIN c /\ IsFresh(c[CacheKey(ids)], t)

MapSet(c, key, entry) ==
    [k \in DOMAIN c \cup {key} |-> IF k = key THEN entry ELSE c[k]]

\* The timestamp of the entry a call finds for ids, -1 when there is none.
SeenTs(c, ids) ==
    IF CacheKey(ids) \in DOMAIN c THEN c[CacheKey(ids)].timestamp ELSE -1

---------------------------------------------------------------------------
(* Requests and responses *)

\* The id handed on as the client wrote it.
IdsOf_Raw(route, rawId) == IF route = "/prices" THEN DEFAULT_IDS ELSE rawId

\* The ids a price route asks getCryptoPrices for.
IdsOf(route, rawId) == IF route = "/prices" THEN DEFAULT_IDS ELSE ToLowerCase(rawId)

Idle ==
    [active |-> FALSE, route |-> "", rawId |-> <<>>, ids |-> <<>>, hdr |-> Absent,
     ip |-> 0, tier |-> "", start |-> 0, seenTs |-> -1, nf |-> 0, calls |-> 0]

NoResponse ==
    [route |-> "", rawId |-> <<>>, ids |-> <<>>, hdr |-> Absent, ip |-> 0,
     tier |-> "", start |-> 0, seenTs |-> -1, nf |-> 0, calls |-> 0,
     status |-> 0, success |-> FALSE, got |-> NoData, data |-> NoData, message |-> "",
     apiKey |-> <<>>, body |-> AbsentTier, served |-> "", at |-> 0]

\* The status a price route gives to prices it obtained.
PriceStatus(route, rawId, prices) ==
    IF route = "/prices/:id" /\ ~TruthyProp(prices, ToLowerCase(rawId))
    THEN 404
    ELSE 200

\* The response of a price route to the request q that obtained prices.
PriceResponse(q, prices, served, t) ==
    LET st == PriceStatus(q.route, q.rawId, prices)
    IN [NoResponse EXCEPT
          !.route = q.route, !.rawId = q.rawId, !.ids = q.ids, !.hdr = q.hdr,
          !.ip = q.ip, !.start = q.start, !.seenTs = q.seenTs, !.nf = q.nf,
          !.calls = q.calls, !.status = st, !.success = (st = 200),
          !.got = prices,
          !.tier = IF st = 200 THEN q.tier ELSE "",
          !.data = IF st = 200 THEN prices ELSE NoData,
          !.message = IF st = 200 THEN "" ELSE "No data",
          !.served = served, !.at = t]

\* The catch block of a price route.
ErrorResponse(q, msg, t) ==
    [NoResponse EXCEPT
       !.route = q.route, !.rawId = q.rawId, !.ids = q.ids, !.hdr = q.hdr,
       !.ip = q.ip, !.start = q.start, !.seenTs = q.seenTs, !.nf = q.nf,
       !.calls = q.calls, !.status = 500, !.message = msg, !.served = "miss",
       !.at = t]

\* A response sent by a middleware before the handler runs.
Rejection(route, rawId, hdr, ip, status, msg, t) ==
    [NoResponse EXCEPT
       !.route = route, !.rawId = rawId, !.hdr = hdr, !.ip = ip, !.start = t,
       !.status = status, !.message = msg, !.at = t]

FreeSlots == {s \in 1..MaxPending : ~pending[s].active}

\* The history of price requests per tier and client, in hours that start with
\* the first request of that tier by that client.
SeenNext(seen, t) ==
    IF seen.n = 0 \/ t >= seen.start + WINDOW_MS
    THEN [n |-> 1, start |-> t]
    ELSE [seen EXCEPT !.n = @ + 1]

---------------------------------------------------------------------------
(* Initial state: the process right after app.listen *)

Init ==
    /\ now = 0
    /\ cache = [k \in {} |-> NoData]
    /\ apiKeys = [k \in {} |-> NoData]
    /\ hits = [r \in Routes |-> [c \in 1..2 |-> NewClient]]
    /\ pending = [s \in 1..MaxPending |-> Idle]
    /\ last = NoResponse
    /\ fetches = <<>>
    /\ issued = <<>>
    /\ tierSeen = [t \in Tiers |-> [c \in 1..2 |-> [n |-> 0, start |-> 0]]]
    /\ nreq = 0
    /\ ticks = 0

---------------------------------------------------------------------------
(* GET /prices and GET /prices/:id, up to the first await that suspends:     *)
(* validateApiKey, the route's limiter, then the handler's call of           *)
(* getCryptoPrices, which answers from the cache or issues the upstream call *)

PriceRequest(route, rawId, hdr, ip) ==
    LET v == validateApiKey(hdr)
        limiter == createRateLimit(RouteLimitTier(route))
        client == Increment(hits[route][ip], limiter, now)
        ids == IdsOf(route, rawId)
        q == [active |-> TRUE, route |-> route, rawId |-> rawId, ids |-> ids,
              hdr |-> hdr, ip |-> ip, tier |-> v.tier, start |-> now,
              seenTs |-> SeenTs(cache, ids), nf |-> Len(fetches), calls |-> 0]
    IN
    /\ UNCHANGED <<now, cache, apiKeys, fetches, issued, ticks>>
    /\ IF v.status = 401
       THEN /\ last' = Rejection(route, rawId, hdr, ip, 401, "API key required", now)
            /\ UNCHANGED <<hits, pending, tierSeen>>
       ELSE /\ hits' = [hits EXCEPT ![route][ip] = client]
            /\ tierSeen' = [tierSeen EXCEPT ![v.tier][ip] = SeenNext(@, now)]
            /\ IF OverLimit(client, limiter)
               THEN /\ last' = Rejection(route, rawId, hdr, ip, 429,
                                         "Rate limit exceeded. Upgrade your plan.", now)
                    /\ UNCHANGED pending
               ELSE IF CacheHit(cache, ids, now)
                    THEN /\ last' = PriceResponse(q, cache[CacheKey(ids)].data, "hit", now)
                         /\ UNCHANGED pending
                    ELSE /\ FreeSlots # {}
                         /\ LET s == CHOOSE x \in FreeSlots : \A y \in FreeSlots : x <= y
                            IN pending' = [pending EXCEPT ![s] = [q EXCEPT !.calls = 1]]
                         /\ UNCHANGED last

\* A store that puts the new payload next to the timestamp already there.
UpstreamReturn_KeepStamp(s, ver) ==
    LET q == pending[s]
        data == UpstreamData(q.ids, ver)
        k == CacheKey(q.ids)
        ts == IF k \in DOMAIN cache THEN cache[k].timestamp ELSE now
    IN
    /\ q.active
    /\ now - q.start <= UPSTREAM_TIMEOUT
    /\ cache' = MapSet(cache, k, [data |-> data, timestamp |-> ts])
    /\ fetches' = Append(fetches, [ids |-> q.ids, rawId |-> q.rawId, at |-> now,
                                   data |-> data])
    /\ last' = PriceResponse(q, data, "miss", now)
    /\ pending' = [pending EXCEPT ![s] = Idle]
    /\ UNCHANGED <<now, apiKeys, hits, issued, tierSeen, ticks>>

\* axios.get resolves: the entry is stored and the handler shapes the response.
UpstreamReturn(s, ver) ==
    LET q == pending[s]
        data == UpstreamData(q.ids, ver)
    IN
    /\ q.active
    /\ now - q.start <= UPSTREAM_TIMEOUT
    /\ cache' = MapSet(cache, CacheKey(q.ids), [data |-> data, timestamp |-> now])
    /\ fetches' = Append(fetches, [ids |-> q.ids, rawId |-> q.rawId, at |-> now,
                                   data |-> data])
    /\ last' = PriceResponse(q, data, "miss", now)
    /\ pending' = [pending EXCEPT ![s] = Idle]
    /\ UNCHANGED <<now, apiKeys, hits, issued, tierSeen, ticks>>

TimeoutMessage == "timeout of 10000ms exceeded"
FailureMessages == {TimeoutMessage, "Request failed with status code 429", "Network Error"}

\* A failure that also drops the entry of the query.
UpstreamFail_Evict(s, msg) ==
    LET q == pending[s]
    IN
    /\ q.active
    /\ last' = ErrorResponse(q, msg, now)
    /\ pending' = [pending EXCEPT ![s] = Idle]
    /\ cache' = [k \in DOMAIN cache \ {CacheKey(q.ids)} |-> cache[k]]
    /\ UNCHANGED <<now, apiKeys, hits, fetches, issued, tierSeen, ticks>>

\* An upstream call without a timeout: it fails only while it is still young.
UpstreamFail_NoTimeout(s, msg) ==
    LET q == pending[s]
    IN
    /\ q.active
    /\ msg # TimeoutMessage
    /\ now - q.start <= UPSTREAM_TIMEOUT
    /\ last' = ErrorResponse(q, msg, now)
    /\ pending' = [pending EXCEPT ![s] = Idle]
    /\ UNCHANGED <<now, cache, apiKeys, hits, fetches, issued, tierSeen, ticks>>

\* axios.get rejects: getCryptoPrices rethrows and the route's catch answers 500.
UpstreamFail(s, msg) ==
    LET q == pending[s]
    IN
    /\ q.active
    /\ (msg = TimeoutMessage) => (now - q.start >= UPSTREAM_TIMEOUT)
    /\ (msg # TimeoutMessage) => (now - q.start <= UPSTREAM_TIMEOUT)
    /\ last' = ErrorResponse(q, msg, now)
    /\ pending' = [pending EXCEPT ![s] = Idle]
    /\ UNCHANGED <<now, cache, apiKeys, hits, fetches, issued, tierSeen, ticks>>

---------------------------------------------------------------------------
(* The routes that take no key *)

\* A keyless route put behind the key check.
Static_NeedsKey(route, hdr, ip) ==
    /\ last' = [NoResponse EXCEPT !.route = route, !.hdr = hdr, !.ip = ip,
                                  !.start = now, !.at = now,
                                  !.status = IF KeyMissing(hdr) THEN 401 ELSE 200]
    /\ UNCHANGED <<now, cache, apiKeys, hits, pending, fetches, issued, tierSeen, ticks>>

\* The handlers of GET / and GET /health: a fixed body, no middleware.
Static(route, hdr, ip) ==
    /\ last' = [NoResponse EXCEPT !.route = route, !.hdr = hdr, !.ip = ip,
                                  !.start = now, !.at = now, !.status = 200]
    /\ UNCHANGED <<now, cache, apiKeys, hits, pending, fetches, issued, tierSeen, ticks>>

\* GET /
Root(hdr, ip) == Static("/", hdr, ip)

\* GET /health
Health(hdr, ip) == Static("/health", hdr, ip)

---------------------------------------------------------------------------
(* POST /generate-key *)

\* const { tier = 'free' } = req.body
BodyTier(body) == IF body.set THEN body.val ELSE "free"

\* Only the pro tier gets a prefix of its own.
KeyPrefix_NoEnt(tier) == IF tier = "pro" THEN PRO_ ELSE FREE_

KeyPrefix(tier) ==
    IF tier = "pro" THEN PRO_ ELSE IF tier = "enterprise" THEN ENT_ ELSE FREE_

\* Key issuance that answers without recording the key.
GenerateKey_NoStore(body, r1, r2, hdr, ip) ==
    LET tier == BodyTier(body)
        key == KeyPrefix(tier) \o r1 \o r2
    IN
    /\ Len(issued) < MaxKeys
    /\ issued' = Append(issued, key)
    /\ last' = [NoResponse EXCEPT !.route = "/generate-key", !.hdr = hdr, !.ip = ip,
                                  !.start = now, !.at = now, !.status = 200,
                                  !.apiKey = key, !.tier = tier, !.body = body]
    /\ UNCHANGED <<now, cache, apiKeys, hits, pending, fetches, tierSeen, ticks>>

\* r1 and r2 are the two Math.random().toString(36).substring(2, 15) draws.
GenerateKey(body, r1, r2, hdr, ip) ==
    LET tier == BodyTier(body)
        key == KeyPrefix(tier) \o r1 \o r2
    IN
    /\ Len(issued) < MaxKeys
    /\ apiKeys' = MapSet(apiKeys, key, [tier |-> tier, createdAt |-> now])
    /\ issued' = Append(issued, key)
    /\ last' = [NoResponse EXCEPT !.route = "/generate-key", !.hdr = hdr, !.ip = ip,
                                  !.start = now, !.at = now, !.status = 200,
                                  !.apiKey = key, !.tier = tier, !.body = body]
    /\ UNCHANGED <<now, cache, hits, pending, fetches, tierSeen, ticks>>

---------------------------------------------------------------------------
(* The clock *)

Tick(d) ==
    /\ ticks < MaxTicks
    /\ ticks' = ticks + 1
    /\ now' = now + d
    /\ UNCHANGED <<cache, apiKeys, hits, pending, last, fetches, issued, tierSeen>>

---------------------------------------------------------------------------
(* Inputs *)

IPs == 1..2

KEY_PRO == PRO_ \o <<"a">>
KEY_ENT == ENT_ \o <<"a">>
KEY_FREE == FREE_ \o <<"a">>
KEY_OTHER == <<"P", "R", "O", "_", "a">>
KEY_SHORT == <<"p", "r", "o">>

Headers == {Absent, Given(<<>>), Given(KEY_PRO), Given(KEY_ENT), Given(KEY_FREE),
            Given(KEY_OTHER), Given(KEY_SHORT)}

ID_MIXED == <<"B", "i", "t", "c", "o", "i", "n">>
ID_UNKNOWN == <<"d", "o", "e", "s", "n", "o", "t", "e", "x", "i", "s", "t">>
ID_CONSTRUCTOR == <<"c", "o", "n", "s", "t", "r", "u", "c", "t", "o", "r">>

RawIds == {BITCOIN, ID_MIXED, ID_UNKNOWN, ID_CONSTRUCTOR}

Bodies == {AbsentTier} \cup {[set |-> TRUE, val |-> t] : t \in Tiers \cup {"gold"}}

\* Results of Math.random().toString(36).substring(2, 15)
RandomStrings == {<<"a">>, <<"b">>}

\* Price snapshots the upstream can answer with
Versions == {1, 2}

Deltas == {CACHE_TTL - 1, CACHE_TTL}

---------------------------------------------------------------------------
(* Spec: the cache and the requests racing on it; every request counts       *)
(* against MaxRequests                                                       *)

Counted == nreq < MaxRequests /\ nreq' = nreq + 1

ReqPrices == PriceRequest("/prices", <<>>, Given(KEY_PRO), 1) /\ Counted

ReqPricesId ==
    \E rawId \in {BITCOIN} : PriceRequest("/prices/:id", rawId, Given(KEY_FREE), 1) /\ Counted

UpReturn == \E s \in 1..MaxPending, ver \in Versions : UpstreamReturn(s, ver) /\ UNCHANGED nreq

UpFail ==
    \E s \in 1..MaxPending, msg \in {TimeoutMessage, "Network Error"} :
        UpstreamFail(s, msg) /\ UNCHANGED nreq

Clock == \E d \in Deltas : Tick(d) /\ UNCHANGED nreq

Next ==
    \/ ReqPrices
    \/ ReqPricesId
    \/ UpReturn
    \/ UpFail
    \/ Clock

Spec == Init /\ [][Next]_vars

---------------------------------------------------------------------------
(* Properties of the cache (checked under Spec) *)

\* The response r answers a price request that reached getCryptoPrices.
Served(r) == r.served # ""

\* The fetches for the ids of r that had completed when r's request started.
FetchesBefore(r) == {i \in 1..r.nf : fetches[i].ids = r.ids}

\* Those among them that were less than the TTL old at that moment.
FreshBefore(r) == {i \in FetchesBefore(r) : r.start - fetches[i].at < CACHE_TTL}

LatestBefore(r) == CHOOSE i \in FetchesBefore(r) : \A j \in FetchesBefore(r) : j <= i

\* C1 as stated: a call that starts less than 60000 ms after a successful
\* fetch for the same query issues no upstream call and returns exactly the
\* payload stored by that fetch.
C1_Original ==
    Served(last) =>
        \A i \in FreshBefore(last) : last.calls = 0 /\ last.got = fetches[i].data

\* C1 amended: a call that starts less than 60000 ms after a successful fetch
\* for the same query issues no upstream call and returns the payload stored
\* by the latest fetch for that query completed before the call started.
C1_CacheHitWithinTtl ==
    (Served(last) /\ FreshBefore(last) # {}) =>
        /\ last.calls = 0
        /\ last.served = "hit"
        /\ last.got = fetches[LatestBefore(last)].data

\* A call served one millisecond before its entry expires, after two fetches
\* for the query stored different payloads.
C1_Witness ==
    /\ last.served = "hit"
    /\ last.calls = 0
    /\ \E i \in FreshBefore(last) : last.start - fetches[i].at = CACHE_TTL - 1
    /\ \E i, j \in FetchesBefore(last) : fetches[i].data # fetches[j].data

\* The entry that request q found was at least the TTL old.
FoundStale(q) == q.seenTs >= 0 /\ q.start - q.seenTs >= CACHE_TTL

\* C2: a call that finds an entry aged 60000 ms or more issues exactly one
\* upstream request and, on success, replaces the entry of its query with the
\* new payload and the current time.
C2_StaleRefetch ==
    [][ /\ (Served(last') /\ FoundStale(last')) => last'.calls = 1
        /\ \A s \in 1..MaxPending :
              /\ pending'[s].active => pending'[s].calls = 1
              /\ (pending[s].active /\ ~pending'[s].active /\ FoundStale(pending[s])
                    /\ last'.status \in {200, 404})
                 => /\ last'.calls = 1
                    /\ cache'[CacheKey(pending[s].ids)]
                         = [data |-> last'.got, timestamp |-> now']
      ]_vars

\* A call that found an entry of exactly 60000 ms and replaced it.
C2_Witness ==
    /\ last.served = "miss"
    /\ last.status = 200
    /\ FoundStale(last)
    /\ last.start - last.seenTs = CACHE_TTL
    /\ last.calls = 1
    /\ cache[CacheKey(last.ids)] = [data |-> last.got, timestamp |-> last.at]
    /\ last.at > last.seenTs

\* C10: a request whose upstream call fails gets one 500 response with the
\* error's message, has issued one upstream call, and none of its steps
\* changes the cache.
C10_FailureLeavesCache ==
    [][ \A s \in 1..MaxPending :
          /\ (~pending[s].active /\ pending'[s].active) => cache' = cache
          /\ (pending[s].active /\ ~pending'[s].active /\ last'.status \notin {200, 404})
             => /\ cache' = cache
                /\ last'.status = 500
                /\ last'.calls = 1
                /\ last'.message \in FailureMessages
                /\ last'.got = NoData /\ last'.data = NoData
                /\ last'.ids = pending[s].ids /\ last'.start = pending[s].start
      ]_vars

\* A 500 answered while the stale entry the request found is still in place.
C10_Witness ==
    /\ last.status = 500
    /\ last.calls = 1
    /\ FoundStale(last)
    /\ CacheKey(last.ids) \in DOMAIN cache
    /\ cache[CacheKey(last.ids)].timestamp = last.seenTs

\* Every entry of the cache c was stored whole by one of the fetches f, under
\* the key of that fetch's ids, with what the upstream answered for those ids.
EntriesFromFetches(c, f) ==
    \A k \in DOMAIN c :
        \E i \in 1..Len(f) :
            /\ k = PRICES_ \o f[i].ids
            /\ c[k] = [data |-> f[i].data, timestamp |-> f[i].at]
            /\ f[i].data.coins = KnownCoins \cap SplitComma(f[i].ids)

\* C12: every cache entry holds a payload the upstream returned for that
\* entry's own query key; a request reads only the entry of its own ids (a
\* request for "bitcoin" is a miss while only "bitcoin,ethereum" is cached) and
\* a completed fetch writes only the entry of its own ids.
C12_OwnEntryOnly ==
    [][ /\ EntriesFromFetches(cache', fetches')
        /\ \A s \in 1..MaxPending :
              (~pending[s].active /\ pending'[s].active) =>
                  LET k == PRICES_ \o pending'[s].ids
                  IN /\ ~(k \in DOMAIN cache /\ now - cache[k].timestamp < CACHE_TTL)
                     /\ cache' = cache
        /\ (last' # last /\ last'.served = "hit") =>
              LET k == PRICES_ \o last'.ids
              IN /\ k \in DOMAIN cache
                 /\ now - cache[k].timestamp < CACHE_TTL
                 /\ last'.got = cache[k].data
                 /\ cache' = cache
        /\ cache' # cache =>
              \E s \in 1..MaxPending :
                  LET k == PRICES_ \o pending[s].ids
                  IN /\ pending[s].active /\ ~pending'[s].active
                     /\ DOMAIN cache' = DOMAIN cache \cup {k}
                     /\ \A j \in DOMAIN cache : j # k => cache'[j] = cache[j]
      ]_vars

\* With "bitcoin,ethereum" cached and fresh, a first GET /prices/bitcoin missed,
\* fetched and created its own entry; the "bitcoin,ethereum" entry is as stored.
C12_Witness ==
    /\ last.route = "/prices/:id"
    /\ last.served = "miss"
    /\ last.status = 200
    /\ last.seenTs = -1
    /\ last.nf >= 1
    /\ fetches[1].ids = DEFAULT_IDS
    /\ last.start - fetches[1].at < CACHE_TTL
    /\ cache[PRICES_ \o DEFAULT_IDS] = [data |-> fetches[1].data, timestamp |-> fetches[1].at]
    /\ cache[PRICES_ \o BITCOIN] = [data |-> last.got, timestamp |-> last.at]
    /\ last.got # fetches[1].data

\* C15: a request that misses issues its own upstream call even while another
\* request for the same ids is in flight; when its call returns it is answered
\* with the payload of that call; and every cache entry is the payload and the
\* completion time of one single fetch, stored together.
C15_OwnFetchWholeEntry ==
    [][ /\ EntriesFromFetches(cache', fetches')
        /\ \A s \in 1..MaxPending :
              /\ (~pending[s].active /\ pending'[s].active) =>
                    /\ pending'[s].calls = 1
                    /\ UNCHANGED <<cache, fetches>>
              /\ (pending[s].active /\ ~pending'[s].active /\ last'.status \in {200, 404}) =>
                    /\ Len(fetches') = Len(fetches) + 1
                    /\ fetches'[Len(fetches')].ids = pending[s].ids
                    /\ fetches'[Len(fetches')].at = now
                    /\ last'.got = fetches'[Len(fetches')].data
                    /\ last'.calls = 1
                    /\ cache'[PRICES_ \o pending[s].ids]
                         = [data |-> last'.got, timestamp |-> now]
      ]_vars

\* Two requests for the same ids both missed before either fetch returned; the
\* fetches brought different payloads, the second request was answered with its
\* own, and the entry is the second fetch's payload and time.
C15_Witness ==
    /\ Len(fetches) = 2
    /\ fetches[1].ids = fetches[2].ids
    /\ fetches[1].data # fetches[2].data
    /\ last.served = "miss"
    /\ last.ids = fetches[2].ids
    /\ last.nf = 0
    /\ last.calls = 1
    /\ last.got = fetches[2].data
    /\ cache[PRICES_ \o last.ids] = [data |-> fetches[2].data, timestamp |-> fetches[2].at]

---------------------------------------------------------------------------
(* SpecId: GET /prices/:id over known, unknown and inherited names *)

IdReqPricesId ==
    \E rawId \in RawIds : PriceRequest("/prices/:id", rawId, Given(KEY_FREE), 1) /\ Counted

IdUpReturn == \E s \in 1..MaxPending : UpstreamReturn(s, 1) /\ UNCHANGED nreq

IdUpFail == \E s \in 1..MaxPending : UpstreamFail(s, "Network Error") /\ UNCHANGED nreq

IdClock == Tick(CACHE_TTL) /\ UNCHANGED nreq

NextId ==
    \/ IdReqPricesId
    \/ IdUpReturn
    \/ IdUpFail
    \/ IdClock

SpecId == Init /\ [][NextId]_vars

\* C5: GET /prices/:id answers 404 with an error body when the upstream
\* response has no entry for the lower-cased id, and 200 with success true and
\* the upstream payload unmodified when it has one.
C5_Original ==
    (last.route = "/prices/:id" /\ Served(last) /\ last.status # 500) =>
        IF ToLowerCase(last.rawId) \in last.got.coins
        THEN last.status = 200 /\ last.success /\ last.data = last.got
        ELSE last.status = 404 /\ ~last.success /\ last.message # ""

\* The fetches made for the id of r in any letter case that had completed, and
\* were less than the TTL old, when r's request started.
FreshForId(r) ==
    {i \in 1..r.nf : /\ ToLowerCase(fetches[i].rawId) = ToLowerCase(r.rawId)
                     /\ r.start - fetches[i].at < CACHE_TTL}

\* C17: GET /prices/:id asks getCryptoPrices for the lower-cased id, so a
\* request that starts within the TTL of a fetch made for the same id in any
\* letter case issues no upstream call and returns the payload of the shared
\* entry (the latest such fetch) with the status that fetch's request got.
C17_CaseInsensitiveId ==
    (last.route = "/prices/:id" /\ Served(last)) =>
        /\ last.ids = ToLowerCase(last.rawId)
        /\ \A i \in 1..Len(fetches) : fetches[i].ids = ToLowerCase(fetches[i].rawId)
        /\ FreshForId(last) # {} =>
              LET m == CHOOSE i \in FreshForId(last) : \A j \in FreshForId(last) : j <= i
              IN /\ last.calls = 0
                 /\ last.served = "hit"
                 /\ last.got = fetches[m].data
                 /\ last.status = PriceStatus("/prices/:id", fetches[m].rawId, fetches[m].data)

\* "Bitcoin" is served from the entry that a request for "bitcoin" fetched.
C17_Witness ==
    /\ last.route = "/prices/:id"
    /\ last.rawId = ID_MIXED
    /\ last.served = "hit"
    /\ last.calls = 0
    /\ last.status = 200
    /\ \E i \in FreshForId(last) : fetches[i].rawId = BITCOIN /\ last.got = fetches[i].data
    /\ \A i \in 1..Len(fetches) : fetches[i].rawId # ID_MIXED

\* C18: an upstream response without an entry for the requested id is stored
\* like any other; a request for that id that starts less than 60000 ms after
\* the fetch answered with 404 is answered 404 from the cache, with no upstream
\* call.
C18_NotFoundCached ==
    (last.route = "/prices/:id" /\ Served(last)) =>
        /\ (last.served = "miss" /\ last.status = 404) =>
              /\ PRICES_ \o last.ids \in DOMAIN cache
              /\ cache[PRICES_ \o last.ids] = [data |-> last.got, timestamp |-> last.at]
        /\ (\E i \in FreshForId(last) :
                PriceStatus("/prices/:id", fetches[i].rawId, fetches[i].data) = 404) =>
              /\ last.status = 404
              /\ last.served = "hit"
              /\ last.calls = 0
              /\ ToLowerCase(last.rawId) \notin last.got.coins

\* A second request for an unknown id is answered 404 from the cache.
C18_Witness ==
    /\ last.route = "/prices/:id"
    /\ last.rawId = ID_UNKNOWN
    /\ last.status = 404
    /\ last.served = "hit"
    /\ last.calls = 0
    /\ last.got.coins = {}
    /\ FreshForId(last) # {}

---------------------------------------------------------------------------
(* SpecKeys: key issuance and the tier resolver *)

IssuedHeaders == {Given(issued[i]) : i \in 1..Len(issued)}

KeysReqPrices ==
    \E hdr \in Headers \cup IssuedHeaders : PriceRequest("/prices", <<>>, hdr, 1) /\ Counted

KeysReqGenerateKey ==
    \E body \in Bodies, r1, r2 \in RandomStrings :
        GenerateKey(body, r1, r2, Absent, 1) /\ Counted

KeysUpReturn == \E s \in 1..MaxPending : UpstreamReturn(s, 1) /\ UNCHANGED nreq

NextKeys ==
    \/ KeysReqPrices
    \/ KeysReqGenerateKey
    \/ KeysUpReturn

SpecKeys == Init /\ [][NextKeys]_vars

\* The tier the documentation assigns to a key, read off its first four characters.
TierOfPrefix(k) ==
    LET head == IF Len(k) >= 4 THEN <<k[1], k[2], k[3], k[4]>> ELSE <<>>
    IN IF head = ENT_ THEN "enterprise" ELSE IF head = PRO_ THEN "pro" ELSE "free"

\* C4: a price request without a key (no header, or an empty one) is answered
\* 401 and gets no tier; with a key it is never answered 401 and the tier of a
\* successful response is enterprise for a key starting with ent_, pro for
\* pro_, and free for any other key.
C4_TierByPrefix ==
    (last.route \in Routes) =>
        IF ~last.hdr.set \/ last.hdr.val = <<>>
        THEN last.status = 401 /\ last.tier = "" /\ ~Served(last)
        ELSE /\ last.status # 401
             /\ last.status = 200 => last.tier = TierOfPrefix(last.hdr.val)

\* A successful response to an enterprise key.
C4_Witness ==
    /\ last.route = "/prices"
    /\ last.status = 200
    /\ last.hdr = Given(KEY_ENT)
    /\ last.tier = "enterprise"

\* C7: POST /generate-key with tier pro, enterprise, free or no tier returns
\* a key starting with pro_, ent_, free_, free_ respectively; the tier resolver
\* gives the returned key the tier the response reports, and so does a price
\* request that presents a key of the store.
C7_PrefixMatchesTier ==
    /\ (last.route = "/generate-key" /\ (~last.body.set \/ last.body.val \in Tiers)) =>
          /\ last.status = 200
          /\ last.tier = (IF last.body.set THEN last.body.val ELSE "free")
          /\ StartsWith(last.apiKey,
                        CASE last.tier = "pro" -> PRO_
                          [] last.tier = "enterprise" -> ENT_
                          [] last.tier = "free" -> FREE_)
          /\ validateApiKey(Given(last.apiKey)).tier = last.tier
    /\ (last.route \in Routes /\ last.status = 200 /\ last.hdr.val \in DOMAIN apiKeys
          /\ apiKeys[last.hdr.val].tier \in Tiers) =>
          last.tier = apiKeys[last.hdr.val].tier

\* An enterprise key was issued and then presented on a price route.
C7_Witness ==
    /\ last.route = "/prices"
    /\ last.status = 200
    /\ last.hdr.val \in DOMAIN apiKeys
    /\ apiKeys[last.hdr.val].tier = "enterprise"
    /\ last.tier = "enterprise"
    /\ \E i \in 1..Len(issued) : issued[i] = last.hdr.val

IssuedKeys == {issued[i] : i \in 1..Len(issued)}

\* C8 as stated: n calls of POST /generate-key return n different keys and
\* leave n records in the key store.
C8_Original ==
    /\ Cardinality(DOMAIN apiKeys) = Len(issued)
    /\ \A i, j \in 1..Len(issued) : i # j => issued[i] # issued[j]

\* C8 amended: the key store holds exactly one record per distinct key string
\* returned, so at most n records after n calls, and n when the returned keys
\* are pairwise different.
C8_OneRecordPerKey ==
    /\ DOMAIN apiKeys = IssuedKeys
    /\ Cardinality(DOMAIN apiKeys) <= Len(issued)
    /\ (\A i, j \in 1..Len(issued) : i # j => issued[i] # issued[j])
          => Cardinality(DOMAIN apiKeys) = Len(issued)

\* Two calls that returned different keys, both in the store.
C8_Witness ==
    /\ Len(issued) = 2
    /\ issued[1] # issued[2]
    /\ Cardinality(DOMAIN apiKeys) = 2

\* C13 as stated: after any sequence of POST /generate-key calls every record
\* of the key store has a tier among free, pro and enterprise that agrees with
\* the prefix of its key (free_, pro_, ent_), and a record, once created, is
\* never changed or deleted.
C13_Original ==
    [][ \A k \in DOMAIN apiKeys' :
          /\ apiKeys'[k].tier \in Tiers
          /\ StartsWith(k, IF apiKeys'[k].tier = "pro" THEN PRO_
                           ELSE IF apiKeys'[k].tier = "enterprise" THEN ENT_ ELSE FREE_)
          /\ k \in DOMAIN apiKeys => apiKeys'[k] = apiKeys[k]
      ]_vars

---------------------------------------------------------------------------
(* SpecRL: one client bursts on GET /prices with a free key until its        *)
(* counter has passed the limit.  Every other request counts against         *)
(* BurstOther and arrives once the burst of the hour is within one request   *)
(* of the limit.                                                             *)

BurstEdge ==
    LET client == hits["/prices"][1]
    IN now < client.resetTime /\ client.totalHits >= FREE_MAX - 1

Other == BurstEdge /\ nreq < BurstOther /\ nreq' = nreq + 1

\* The bursting client sends its next request once nothing is in flight.
BurstOpen ==
    LET client == hits["/prices"][1]
    IN /\ \A s \in 1..MaxPending : ~pending[s].active
       /\ client.resetTime <= now \/ client.totalHits < FREE_MAX + BurstOver

RLBurst ==
    /\ BurstOpen
    /\ PriceRequest("/prices", <<>>, Given(KEY_FREE), 1)
    /\ UNCHANGED nreq

RLReqPrices ==
    \E hi \in {<<Given(KEY_PRO), 1>>, <<Given(KEY_FREE), 2>>, <<Absent, 1>>} :
        PriceRequest("/prices", <<>>, hi[1], hi[2]) /\ Other

RLReqPricesId ==
    \E hdr \in {Given(KEY_FREE), Absent} :
        PriceRequest("/prices/:id", BITCOIN, hdr, 1) /\ Other

RLReqRoot == Root(Absent, 1) /\ Other

RLReqHealth == Health(Absent, 1) /\ Other

RLReqGenerateKey ==
    GenerateKey([set |-> TRUE, val |-> "pro"], <<"a">>, <<"a">>, Absent, 1) /\ Other

RLUpReturn == \E s \in 1..MaxPending : UpstreamReturn(s, 1) /\ UNCHANGED nreq

RLUpFail == \E s \in 1..MaxPending : UpstreamFail(s, "Network Error") /\ UNCHANGED nreq

RLClock == Tick(WINDOW_MS) /\ UNCHANGED nreq

NextRL ==
    \/ RLBurst
    \/ RLReqPrices
    \/ RLReqPricesId
    \/ RLReqRoot
    \/ RLReqHealth
    \/ RLReqGenerateKey
    \/ RLUpReturn
    \/ RLUpFail
    \/ RLClock

SpecRL == Init /\ [][NextRL]_vars

---------------------------------------------------------------------------
(* Properties of the limiter and of the routes' effects (checked under SpecRL) *)

\* A step in which a price request of tier t by client c passed the key check.
TierRequest(t, c) == tierSeen'[t][c] # tierSeen[t][c]

\* That request was rejected: a 429 was sent and nothing was handed to the handler.
Rejected == last'.status = 429 /\ pending' = pending /\ cache' = cache

\* C3 as stated, read per client: once a client's requests of a tier in the
\* current hour exceed the tier's configured count (free 100, pro 10000,
\* enterprise 100000), every further request of that tier by that client in
\* that hour is rejected; after the hour the count starts again and requests
\* are accepted.
C3_Original ==
    [][ \A t \in Tiers, c \in IPs :
          TierRequest(t, c) =>
              IF now < tierSeen[t][c].start + WINDOW_MS
              THEN tierSeen[t][c].n > Limits(t).max => Rejected
              ELSE ~Rejected
      ]_vars

\* C6: GET / and GET /health can be served in every state, whatever the cache,
\* the key store and the counters hold, and every response they send is a 200,
\* key or no key.
C6_StaticAlwaysOk ==
    /\ ENABLED Root(Absent, 1)
    /\ ENABLED Health(Absent, 1)
    /\ last.route \in {"/", "/health"} => last.status = 200

\* GET /health answered 200 without a key while the burst client is over its limit.
C6_Witness ==
    /\ last.route = "/health"
    /\ last.status = 200
    /\ ~last.hdr.set
    /\ hits["/prices"][1].totalHits > FREE_MAX
    /\ now < hits["/prices"][1].resetTime

\* The step handles a request to POST /generate-key.
KeyIssued == issued' # issued

\* C9 as stated: POST /generate-key adds one record to the key store, and no
\* other request changes the key store, the cache or the limiters' counters.
C9_Original ==
    [][ IF KeyIssued
        THEN /\ Cardinality(DOMAIN apiKeys') = Cardinality(DOMAIN apiKeys) + 1
             /\ UNCHANGED <<cache, hits>>
        ELSE UNCHANGED <<apiKeys, cache, hits>>
      ]_vars

\* C9 amended: the key store is written by POST /generate-key only, which sets
\* the record of the key it returns and nothing else; GET / and GET /health
\* change nothing; a price request changes only the counter of its route and
\* client and, when its upstream fetch succeeds, the cache entry of its query.
C9_WhoWritesWhat ==
    [][ /\ IF KeyIssued
           THEN /\ DOMAIN apiKeys' = DOMAIN apiKeys \cup {last'.apiKey}
                /\ apiKeys'[last'.apiKey].tier = last'.tier
                /\ \A k \in DOMAIN apiKeys : k # last'.apiKey => apiKeys'[k] = apiKeys[k]
                /\ UNCHANGED <<cache, hits>>
           ELSE UNCHANGED apiKeys
        /\ (last' # last /\ last'.route \in {"/", "/health"})
              => UNCHANGED <<apiKeys, cache, hits>>
        /\ hits' # hits =>
              /\ cache' = cache
              /\ \E r \in Routes, c \in IPs :
                    /\ \A r2 \in Routes, c2 \in IPs :
                          (r2 # r \/ c2 # c) => hits'[r2][c2] = hits[r2][c2]
                    /\ (last' # last => last'.route = r /\ last'.ip = c)
        /\ cache' # cache =>
              /\ hits' = hits
              /\ last'.route \in Routes /\ last'.status \in {200, 404}
              /\ last'.served = "miss"
              /\ \A k \in DOMAIN cache : k # CacheKey(last'.ids) => cache'[k] = cache[k]
              /\ DOMAIN cache' = DOMAIN cache \cup {CacheKey(last'.ids)}
      ]_vars

\* A key was issued, a price request was counted and its fetch was cached.
C9_Witness ==
    /\ DOMAIN apiKeys # {}
    /\ DOMAIN cache # {}
    /\ hits["/prices"][1].totalHits > 0
    /\ last.route = "/generate-key"

NoKey(r) == ~r.hdr.set \/ r.hdr.val = <<>>

\* C14: a price request without a key is answered 401 and changes no limiter
\* counter, does not reach the cache and issues no upstream call, also when the
\* client's counter has passed the limit; only requests with a key are counted;
\* a request answered 429 does not reach the cache and issues no upstream call.
C14_KeyCheckFirst ==
    [][ /\ \A s \in 1..MaxPending :
              (~pending[s].active /\ pending'[s].active) => ~NoKey(pending'[s])
        /\ (hits' # hits /\ last' # last) => ~NoKey(last')
        /\ (last' # last /\ last'.route \in Routes /\ NoKey(last')) => last'.status = 401
        /\ (last' # last /\ last'.status = 401) =>
              /\ NoKey(last')
              /\ UNCHANGED <<hits, cache, pending, fetches>>
              /\ last'.served = "" /\ last'.calls = 0 /\ last'.got = NoData
        /\ (last' # last /\ last'.status = 429) =>
              /\ UNCHANGED <<cache, pending, fetches>>
              /\ last'.served = "" /\ last'.calls = 0 /\ last'.got = NoData
      ]_vars

\* A request without a key is answered 401, not 429, on a route where its
\* client's counter has passed the limit, and the counter is as the last
\* counted request left it.
C14_Witness ==
    /\ last.status = 401
    /\ last.route = "/prices"
    /\ ~last.hdr.set
    /\ hits["/prices"][last.ip].totalHits = FREE_MAX + 1
    /\ now < hits["/prices"][last.ip].resetTime
    /\ tierSeen["free"][last.ip].n = FREE_MAX + 1

\* C16: the response to a price request is determined by the request, the
\* cache, the counter of its route and client and the upstream result, none of
\* which key issuance writes: its status is 401 exactly when it carries no key,
\* its tier is read off the key's prefix whether or not the key is in the key
\* store (and whatever tier the store records for it), and its payload is the
\* cached or fetched one; no price request step changes the key store.
C16_StoreNeverConsulted ==
    [][ ~KeyIssued =>
          /\ UNCHANGED apiKeys
          /\ \A s \in 1..MaxPending :
                (~pending[s].active /\ pending'[s].active) =>
                    /\ ~NoKey(pending'[s])
                    /\ pending'[s].tier = TierOfPrefix(pending'[s].hdr.val)
          /\ (last' # last /\ last'.route \in Routes) =>
                /\ last'.status = 401 <=> NoKey(last')
                /\ last'.status = 429 <=>
                      /\ ~NoKey(last')
                      /\ hits'[last'.route][last'.ip] # hits[last'.route][last'.ip]
                      /\ hits'[last'.route][last'.ip].totalHits > FREE_MAX
                /\ last'.status = 200 =>
                      /\ last'.tier = TierOfPrefix(last'.hdr.val)
                      /\ last'.data = last'.got
                /\ last'.served = "hit" => last'.got = cache[PRICES_ \o last'.ids].data
                /\ (last'.served = "miss" /\ last'.status # 500) =>
                      last'.got = fetches'[Len(fetches')].data
      ]_vars

\* With a pro key on record, a key with the pro_ prefix that was never issued
\* is served as pro.
C16_Witness ==
    /\ last.route = "/prices"
    /\ last.status = 200
    /\ last.tier = "pro"
    /\ last.hdr.val \notin DOMAIN apiKeys
    /\ \E k \in DOMAIN apiKeys : apiKeys[k].tier = "pro"

---------------------------------------------------------------------------
(* SpecLive: the burst of SpecRL with known and unknown ids, upstream calls  *)
(* that return, fail or time out, and the promise of every upstream call     *)
(* eventually settling (axios resolves or rejects it, at the latest when its *)
(* 10000 ms timer fires, and the event loop then resumes the handler).       *)

LiveReqPricesId ==
    \E rawId \in {BITCOIN, ID_UNKNOWN} :
        PriceRequest("/prices/:id", rawId, Given(KEY_FREE), 1) /\ Other

LiveUpFail ==
    \E s \in 1..MaxPending, msg \in {TimeoutMessage, "Network Error"} :
        UpstreamFail(s, msg) /\ UNCHANGED nreq

\* A minute passes, once the burst is within one request of the limit: the
\* calls in flight are past their timeout and the cached entries are stale.
LiveClock == BurstEdge /\ Tick(CACHE_TTL) /\ UNCHANGED nreq

NextLive ==
    \/ RLBurst
    \/ RLReqPrices
    \/ LiveReqPricesId
    \/ RLUpReturn
    \/ LiveUpFail
    \/ LiveClock

\* The upstream call of the request in slot s settles.
Settle(s) ==
    \/ UpstreamReturn(s, 1) /\ UNCHANGED nreq
    \/ \E msg \in {TimeoutMessage, "Network Error"} : UpstreamFail(s, msg) /\ UNCHANGED nreq

SpecLive ==
    /\ Init
    /\ [][NextLive]_vars
    /\ \A s \in 1..MaxPending : WF_vars(Settle(s))

\* The response r answers the suspended request q.
Answers(r, q) ==
    /\ r.route = q.route /\ r.rawId = q.rawId /\ r.hdr = q.hdr /\ r.ip = q.ip
    /\ r.start = q.start /\ r.calls = q.calls

\* C19: a price request is answered in the step that receives it (401, 429, or
\* 200/404 from the cache) or is suspended on one upstream call and answered in
\* the step that call settles in (200, 404 or 500), never both and never
\* twice; 404 is sent on /prices/:id only; and every suspended request is
\* eventually answered.
C19_ExactlyOneResponse ==
    /\ [][  /\ \A s \in 1..MaxPending :
                /\ (~pending[s].active /\ pending'[s].active) =>
                      /\ last' = last
                      /\ \A s2 \in 1..MaxPending : s2 # s => pending'[s2] = pending[s2]
                /\ (pending[s].active /\ pending'[s] # pending[s]) =>
                      /\ ~pending'[s].active
                      /\ Answers(last', pending[s])
                      /\ last'.status \in {200, 404, 500}
                      /\ last'.at = now
                      /\ \A s2 \in 1..MaxPending : s2 # s => pending'[s2] = pending[s2]
            /\ (last' # last /\ pending' = pending) =>
                  /\ last'.route \in Routes
                  /\ last'.status \in {401, 429, 200, 404}
                  /\ last'.start = now /\ last'.at = now
            /\ last'.status = 404 => last'.route = "/prices/:id"
          ]_vars
    /\ \A s \in 1..MaxPending : pending[s].active ~> ~pending[s].active

\* A request that outlived the 10000 ms of its upstream call was answered 500
\* with the timeout's message.
C19_Witness ==
    /\ last.status = 500
    /\ last.message = TimeoutMessage
    /\ last.at - last.start >= UPSTREAM_TIMEOUT
    /\ last.calls = 1
    /\ \A s \in 1..MaxPending : ~pending[s].active

===========================================================================
